---- MODULE Spec2Model ----
(***************************************************************************)
(* Bank_Transaction_System backend: the bootstrap of the two entry points  *)
(* (server.js next to src/Database/db.js, and backend/server.js), the      *)
(* ConnectDB coroutine of src/Database/db.js, the listener bind, and the   *)
(* request pipeline app.use(express.json()) -> app.get('/').               *)
(*                                                                         *)
(* One Node.js process is one element of Procs.  A process runs its module *)
(* body to completion (pc), then the runtime delivers the queued           *)
(* process.nextTick event of the listener (tick), then promise             *)
(* continuations and I/O events (the driver's outcome, HTTP requests).     *)
(* The stack is the one the README names: Express 5, Mongoose 9.  The exit *)
(* of a process whose event loop is empty is not modelled: such a process  *)
(* stays "running" with nothing left to do.                                *)
(***************************************************************************)
EXTENDS Integers, Sequences, FiniteSets, TLC

VARIABLES
    pc,         \* position of each process in the module body of its server.js
    entry,      \* which server.js the process was started from
    environ,    \* the process environment read by example.env.js
    proc,       \* "running" or "crashed" (uncaught exception / unhandled rejection)
    stack,      \* the Express middleware/route stack of app
    listener,   \* "NotStarted", "Listening" or "BindFailed"
    boundPort,  \* the TCP port the listener holds (0: none)
    tick,       \* the listener event queued with process.nextTick
    portOwner,  \* the host's port table: who holds each TCP port
    db,         \* the driver's connection attempt: idle, pending, connected, failed
    attempts,   \* number of mongoose.connect calls made by the process
    coPc,       \* position of the ConnectDB coroutine: notcalled, await, returned
    promise,    \* the promise ConnectDB() returned to its caller
    log,        \* console.log lines of the process, in order
    exchange    \* the last HTTP exchange of the process (<<>> or <<[req, resp]>>)

vars == <<pc, entry, environ, proc, stack, listener, boundPort, tick, portOwner,
          db, attempts, coPc, promise, log, exchange>>

-----------------------------------------------------------------------------
(* Bounds and the configuration values drawn at process start.             *)

NumPorts == 2
NumEphemeral == 2
BasePort == 3000

Procs == {"A", "B"}

ConfiguredPorts == BasePort .. (BasePort + NumPorts - 1)
EphemeralPorts == 49152 .. (49152 + NumEphemeral - 1)
AllPorts == ConfiguredPorts \cup EphemeralPorts

\* PORT as example.env.js exports it: a port number, 0 for an unset (undefined)
\* or zero value, 65536 for a value that is no TCP port.
PortValues == ConfiguredPorts \cup {0, 65536}

LocalUri == "mongodb://localhost:27017/Bank_Transaction_System"
UriValues == {LocalUri, "mongodb://unreachable.invalid:27017/db", "not-a-uri", "", "undefined"}

Entries == {"server.js", "backend/server.js"}

Methods == {"GET", "HEAD", "OPTIONS", "POST"}
Paths == {"/", "/healthz"}
Queries == {"", "x=1"}
\* What the request carries as a body and its Content-Type:
\*   none         no Content-Length / Transfer-Encoding
\*   json_ok      application/json, well-formed object
\*   json_bad     application/json, malformed text
\*   json_latin1  application/json; charset=iso-8859-1, well-formed object
Payloads == {"none", "json_ok", "json_bad", "json_latin1"}
Requests == [method : Methods, path : Paths, query : Queries, payload : Payloads]

DbStates == {"idle", "pending", "connected", "failed"}

-----------------------------------------------------------------------------
(* Configuration Loader (example.env.js): environment-to-value mapping.    *)

LoadConfig(e) == [PORT |-> e.PORT, database_uri |-> e.database_uri]

PORT(i) == LoadConfig(environ[i]).PORT
database_uri(i) == LoadConfig(environ[i]).database_uri

-----------------------------------------------------------------------------
(* Request pipeline.                                                       *)

Response(status, body) == [status |-> status, body |-> body]

\* express.json(): skips requests without a body or with another content
\* type, rejects an unsupported charset with 415 and malformed JSON with 400.
JsonParser(req) ==
    CASE req.payload = "none" -> "next"
      [] req.payload = "json_latin1" -> "415"
      [] req.payload = "json_bad" -> "400"
      [] OTHER -> "next"

\* (req, res) => { res.send("Hi hi") }: the handler has the connection state
\* and the configuration in scope and uses neither.
\* Faulty variants: a handler that echoes the query string, and one that
\* answers 503 until the database is connected.
RouteHandlerEchoQuery(req, dbState, config) ==
    IF req.query = "" THEN Response(200, "Hi hi") ELSE Response(200, req.query)

RouteHandlerLeaky(req, dbState, config) ==
    IF dbState = "connected" THEN Response(200, "Hi hi")
    ELSE Response(503, "Hi hi")

RouteHandler(req, dbState, config) == Response(200, "Hi hi")

\* A route registered with app.get also answers HEAD.
HandlesMethod(layer, method) ==
    \/ layer.method = method
    \/ layer.method = "GET" /\ method = "HEAD"

MatchesPath(layer, path) == layer.path = path

RECURSIVE Dispatch(_, _, _, _, _)
Dispatch(layers, req, dbState, config, allow) ==
    IF layers = <<>> THEN
        \* end of the stack: the automatic OPTIONS answer, else finalhandler's 404
        IF req.method = "OPTIONS" /\ allow THEN Response(200, "GET, HEAD")
        ELSE Response(404, "Not Found")
    ELSE
        LET layer == Head(layers) IN
        IF layer.kind = "use" THEN
            LET r == JsonParser(req) IN
            IF r = "400" THEN Response(400, "Bad Request")
            ELSE IF r = "415" THEN Response(415, "Unsupported Media Type")
            ELSE Dispatch(Tail(layers), req, dbState, config, allow)
        ELSE IF MatchesPath(layer, req.path) THEN
            IF HandlesMethod(layer, req.method) THEN
                RouteHandler(req, dbState, config)
            ELSE Dispatch(Tail(layers), req, dbState, config, TRUE)
        ELSE Dispatch(Tail(layers), req, dbState, config, allow)

\* The answer to one request; the answer to HEAD carries no body.
Respond(layers, req, dbState, config) ==
    LET r == Dispatch(layers, req, dbState, config, FALSE) IN
    IF req.method = "HEAD" THEN Response(r.status, "") ELSE r

-----------------------------------------------------------------------------
(* Database Connector (src/Database/db.js).                                *)

\* mongoose.connect(database_uri): the driver's verdict on the connection
\* string.  Only a well-formed URI of a reachable server connects.
MongooseConnect(uri) == IF uri = LocalUri THEN "connected" ELSE "failed"

\* The rest of ConnectDB after the await: the lines it logs and how the
\* promise it returned settles.
\* Faulty variants: a catch block that rethrows, and a success line logged
\* outside the try block.
ConnectDBBodyRethrow(outcome) ==
    IF outcome = "connected"
    THEN [lines |-> <<"db_connected">>, promise |-> "fulfilled"]
    ELSE [lines |-> <<"db_problem">>, promise |-> "rejected"]

ConnectDBBodyBothLines(outcome) ==
    IF outcome = "connected"
    THEN [lines |-> <<"db_connected">>, promise |-> "fulfilled"]
    ELSE [lines |-> <<"db_connected", "db_problem">>, promise |-> "fulfilled"]

ConnectDBBody(outcome) ==
    IF outcome = "connected"
    THEN [lines |-> <<"db_connected">>, promise |-> "fulfilled"]
    ELSE [lines |-> <<"db_problem">>, promise |-> "fulfilled"]

-----------------------------------------------------------------------------
(* HTTP Listener (server.js, backend/server.js).                           *)

\* The statements of the module body after the route registration.
BodyRest(e) ==
    IF e = "server.js" THEN <<"ConnectDB", "listen">> ELSE <<"listen">>

\* The statements the module body has still to run.
Todo(i) == pc[i].todo

\* `ConnectDB();` is a bare call: the statement after it runs whatever the
\* position of the coroutine.
\* (Faulty variant: app.listen held back until ConnectDB has returned.)
ListenAfterConnect(co) == co # "await"

ListenMayRun(co) == TRUE

\* express.json() then GET / : the stack after lines app.use / app.get.
\* (Faulty variant: a second route answering with the same handler.)
RoutesExtra ==
    << [kind |-> "use", method |-> "*", path |-> "*"],
       [kind |-> "route", method |-> "GET", path |-> "/"],
       [kind |-> "route", method |-> "POST", path |-> "/healthz"] >>

Routes ==
    << [kind |-> "use", method |-> "*", path |-> "*"],
       [kind |-> "route", method |-> "GET", path |-> "/"] >>

\* bind(2): a port can be bound when no socket of the host holds it.
\* (Faulty variant: instances of the server may share a port.)
PortAvailableReuse(owner, p) == owner[p] # "other"

PortAvailable(owner, p) == owner[p] = "free"

\* The ports listen(PORT) may bind: PORT itself, or any ephemeral port
\* when PORT is 0 / undefined.
BindCandidates(owner, port) ==
    IF port = 0 THEN {p \in EphemeralPorts : PortAvailable(owner, p)}
    ELSE {p \in {port} \cap AllPorts : PortAvailable(owner, p)}

\* net.Server.listen validates the port before binding.
ValidPort(port) == port >= 0 /\ port <= 65535

\* Express 5 app.listen registers the callback for 'listening' and, once,
\* for 'error': a failed bind calls it with the error, which it ignores.
CallbackRunsOn(event) == event \in {"listening", "error"}

\* Callbacks, continuations and I/O events of a process run only after its
\* module body has run to completion, and after the nextTick queue.
MainDone(i) == pc[i].at = "run" /\ pc[i].todo = <<>>
Suspended(i) == pc[i].at = "run" /\ pc[i].todo # <<>> /\ ~ListenMayRun(coPc[i])
Alive(i) == proc[i] = "running"
CanRunCallbacks(i) == Alive(i) /\ (MainDone(i) \/ Suspended(i)) /\ tick[i] = "none"
Serving(i) == Alive(i) /\ listener[i] = "Listening"

\* An uncaught exception or unhandled rejection ends the process; the host
\* closes its sockets.
ReleasePorts(owner, i) == [p \in AllPorts |-> IF owner[p] = i THEN "free" ELSE owner[p]]

-----------------------------------------------------------------------------
(* Initial states.                                                         *)

Off == [at |-> "off", todo |-> <<>>]
Environments == [PORT : PortValues, database_uri : UriValues]

InitProc(launched) ==
    /\ entry \in [Procs -> Entries]
    /\ environ \in [Procs -> Environments]
    /\ \A i \in Procs \ launched :
          entry[i] = "server.js" /\ environ[i] = [PORT |-> 0, database_uri |-> "undefined"]
    /\ pc = [i \in Procs |-> IF i \in launched THEN [at |-> "start", todo |-> <<>>] ELSE Off]
    /\ proc = [i \in Procs |-> "running"]
    /\ stack = [i \in Procs |-> <<>>]
    /\ listener = [i \in Procs |-> "NotStarted"]
    /\ boundPort = [i \in Procs |-> 0]
    /\ tick = [i \in Procs |-> "none"]
    /\ db = [i \in Procs |-> "idle"]
    /\ attempts = [i \in Procs |-> 0]
    /\ coPc = [i \in Procs |-> "notcalled"]
    /\ promise = [i \in Procs |-> "none"]
    /\ log = [i \in Procs |-> <<>>]
    /\ exchange = [i \in Procs |-> <<>>]

\* One process on a host where other programs may hold configured ports.
Init ==
    /\ InitProc({"A"})
    /\ portOwner \in [AllPorts -> {"free", "other"}]
    /\ \A p \in EphemeralPorts : portOwner[p] = "free"

\* Two instances started concurrently on a host with all ports free.
InitPair ==
    /\ InitProc(Procs)
    /\ portOwner = [p \in AllPorts |-> "free"]

-----------------------------------------------------------------------------
(* Module body.                                                            *)

\* app.use(express.json()); app.get('/', ...)
RegisterRoutes(i) ==
    /\ Alive(i)
    /\ pc[i].at = "start"
    /\ stack' = [stack EXCEPT ![i] = Routes]
    /\ pc' = [pc EXCEPT ![i] = [at |-> "run", todo |-> BodyRest(entry[i])]]
    /\ UNCHANGED <<entry, environ, proc, listener, boundPort, tick, portOwner,
                   db, attempts, coPc, promise, log, exchange>>

\* ConnectDB(): runs the coroutine up to its await of mongoose.connect and
\* returns a pending promise, which the caller drops.
CallConnectDB(i) ==
    /\ Alive(i)
    /\ pc[i].at = "run" /\ Todo(i) # <<>> /\ Head(Todo(i)) = "ConnectDB"
    /\ attempts' = [attempts EXCEPT ![i] = @ + 1]
    /\ db' = [db EXCEPT ![i] = "pending"]
    /\ coPc' = [coPc EXCEPT ![i] = "await"]
    /\ promise' = [promise EXCEPT ![i] = "pending"]
    /\ pc' = [pc EXCEPT ![i].todo = Tail(@)]
    /\ UNCHANGED <<entry, environ, proc, stack, listener, boundPort, tick,
                   portOwner, log, exchange>>

\* app.listen(PORT, callback): validates the port, binds synchronously and
\* queues the 'listening' or 'error' event with process.nextTick.
CallListen(i) ==
    /\ Alive(i)
    /\ pc[i].at = "run" /\ Todo(i) # <<>> /\ Head(Todo(i)) = "listen"
    /\ ListenMayRun(coPc[i])
    /\ pc' = [pc EXCEPT ![i].todo = Tail(@)]
    /\ IF ~ValidPort(PORT(i)) THEN
          \* ERR_SOCKET_BAD_PORT thrown out of the module body
          /\ proc' = [proc EXCEPT ![i] = "crashed"]
          /\ UNCHANGED <<listener, boundPort, tick, portOwner>>
       ELSE IF BindCandidates(portOwner, PORT(i)) = {} THEN
          \* EADDRINUSE
          /\ listener' = [listener EXCEPT ![i] = "BindFailed"]
          /\ tick' = [tick EXCEPT ![i] = "error"]
          /\ UNCHANGED <<proc, boundPort, portOwner>>
       ELSE
          \E p \in BindCandidates(portOwner, PORT(i)) :
             /\ portOwner' = [portOwner EXCEPT ![p] = i]
             /\ boundPort' = [boundPort EXCEPT ![i] = p]
             /\ listener' = [listener EXCEPT ![i] = "Listening"]
             /\ tick' = [tick EXCEPT ![i] = "listening"]
             /\ UNCHANGED proc
    /\ UNCHANGED <<entry, environ, stack, db, attempts, coPc, promise, log, exchange>>

-----------------------------------------------------------------------------
(* Events after the module body.                                           *)

\* () => { console.log(`Server is running on ${PORT}`) }
ListenCallback(i) ==
    /\ Alive(i) /\ MainDone(i)
    /\ tick[i] # "none"
    /\ tick' = [tick EXCEPT ![i] = "none"]
    /\ IF CallbackRunsOn(tick[i]) THEN
          /\ log' = [log EXCEPT ![i] = Append(@, "server_running")]
          /\ UNCHANGED <<proc, portOwner>>
       ELSE
          \* an 'error' event without a listener is thrown
          /\ proc' = [proc EXCEPT ![i] = "crashed"]
          /\ portOwner' = ReleasePorts(portOwner, i)
          /\ UNCHANGED log
    /\ UNCHANGED <<pc, entry, environ, stack, listener, boundPort,
                   db, attempts, coPc, promise, exchange>>

\* The driver reports the outcome of the connection attempt.
MongooseSettle(i) ==
    /\ CanRunCallbacks(i)
    /\ db[i] = "pending"
    /\ db' = [db EXCEPT ![i] = MongooseConnect(database_uri(i))]
    /\ UNCHANGED <<pc, entry, environ, proc, stack, listener, boundPort, tick,
                   portOwner, attempts, coPc, promise, log, exchange>>

\* ConnectDB resumes after the await: try branch or catch branch.
ConnectDBResume(i) ==
    /\ CanRunCallbacks(i)
    /\ coPc[i] = "await"
    /\ db[i] \in {"connected", "failed"}
    /\ LET r == ConnectDBBody(db[i]) IN
          /\ log' = [log EXCEPT ![i] = @ \o r.lines]
          /\ promise' = [promise EXCEPT ![i] = r.promise]
          /\ IF r.promise = "rejected" THEN
                \* nobody handles the promise ConnectDB() returned
                /\ proc' = [proc EXCEPT ![i] = "crashed"]
                /\ portOwner' = ReleasePorts(portOwner, i)
             ELSE UNCHANGED <<proc, portOwner>>
    /\ coPc' = [coPc EXCEPT ![i] = "returned"]
    /\ UNCHANGED <<pc, entry, environ, stack, listener, boundPort, tick,
                   db, attempts, exchange>>

\* One HTTP request arrives at the listener and is answered.
HandleRequest(i, req) ==
    /\ CanRunCallbacks(i)
    /\ Serving(i)
    /\ exchange' = [exchange EXCEPT ![i] =
          << [req |-> req,
              resp |-> Respond(stack[i], req, db[i], LoadConfig(environ[i]))] >>]
    /\ UNCHANGED <<pc, entry, environ, proc, stack, listener, boundPort, tick,
                   portOwner, db, attempts, coPc, promise, log>>

ModuleBody(i) == RegisterRoutes(i) \/ CallConnectDB(i) \/ CallListen(i)

Startup(i) ==
    \/ RegisterRoutes(i)
    \/ CallConnectDB(i)
    \/ CallListen(i)
    \/ ListenCallback(i)
    \/ MongooseSettle(i)
    \/ ConnectDBResume(i)

Next ==
    \E i \in Procs :
        \/ RegisterRoutes(i)
        \/ CallConnectDB(i)
        \/ CallListen(i)
        \/ ListenCallback(i)
        \/ MongooseSettle(i)
        \/ ConnectDBResume(i)
        \/ \E req \in Requests : HandleRequest(i, req)

NextPair == \E i \in Procs : Startup(i)

Spec == Init /\ [][Next]_vars

\* A running process executes its module body and its nextTick queue; the
\* network owes no answer to the connection attempt.
FairSpec ==
    /\ Spec
    /\ \A i \in Procs : WF_vars(ModuleBody(i)) /\ WF_vars(ListenCallback(i))

SpecPair == InitPair /\ [][NextPair]_vars

-----------------------------------------------------------------------------
(* Properties.                                                             *)

Served(i) == exchange[i] # <<>>
Req(i) == exchange[i][1].req
Resp(i) == exchange[i][1].resp
InLog(i, line) == \E k \in DOMAIN log[i] : log[i][k] = line
DbLines(i) == {k \in DOMAIN log[i] : log[i][k] \in {"db_connected", "db_problem"}}
PlainGet == [method |-> "GET", path |-> "/", query |-> "", payload |-> "none"]
PortIsFree(i) == ValidPort(PORT(i)) /\ BindCandidates(portOwner, PORT(i)) # {}

C2_BindNotBlocked ==
    /\ \A i \in Procs : (pc[i].at = "start" /\ PortIsFree(i)) ~> (listener[i] = "Listening")
    /\ [](\A i \in Procs :
            (Alive(i) /\ listener[i] = "Listening" /\ tick[i] = "none")
                => ENABLED HandleRequest(i, PlainGet))

C2_Witness ==
    /\ listener["A"] = "Listening" /\ db["A"] = "pending"
    /\ database_uri("A") = "mongodb://unreachable.invalid:27017/db"
    /\ Served("A") /\ Req("A") = PlainGet /\ Resp("A").status = 200

\* C3: a failed connection attempt never ends the process and never raises
\* out of ConnectDB: the failure is logged, the promise ConnectDB returned
\* is fulfilled, and a listening process keeps its socket and keeps serving.
C3_FailureConfined ==
    \A i \in Procs :
        db[i] = "failed" =>
            /\ Alive(i)
            /\ promise[i] # "rejected"
            /\ coPc[i] = "returned" => (promise[i] = "fulfilled" /\ InLog(i, "db_problem"))
            /\ listener[i] = "Listening" =>
                  (portOwner[boundPort[i]] = i /\ ENABLED HandleRequest(i, PlainGet))

C3_Witness ==
    /\ db["A"] = "failed" /\ coPc["A"] = "returned"
    /\ database_uri("A") = "undefined"
    /\ Alive("A") /\ listener["A"] = "Listening"
    /\ Served("A") /\ Resp("A") = Response(200, "Hi hi")

\* C4 (as stated): in every startup run ConnectDB is called, and called
\* before app.listen.
C4_ConnectBeforeListen ==
    \A i \in Procs :
        (pc[i].at = "run" /\ (Todo(i) = <<>> \/ listener[i] # "NotStarted"))
            => attempts[i] >= 1

C6_PortExclusive ==
    \A i \in Procs :
        /\ (listener[i] = "Listening" /\ PORT(i) # 0) => boundPort[i] = PORT(i)
        /\ listener[i] = "Listening" => portOwner[boundPort[i]] = i
        /\ \A j \in Procs \ {i} :
              /\ (listener[i] = "Listening" /\ listener[j] = "Listening")
                    => boundPort[i] # boundPort[j]
              /\ (PORT(i) = PORT(j) /\ PORT(i) \in ConfiguredPorts) =>
                    /\ ~(listener[i] = "Listening" /\ listener[j] = "Listening")
                    /\ (MainDone(i) /\ MainDone(j)) =>
                          {listener[i], listener[j]} = {"Listening", "BindFailed"}

C6_Witness ==
    /\ PORT("A") = BasePort /\ PORT("B") = BasePort
    /\ listener["B"] = "Listening" /\ listener["A"] = "BindFailed"
    /\ boundPort["B"] = BasePort

\* C7: at most one connection attempt per process; a finished attempt has
\* logged exactly one line, the success line or the failure line according
\* to its outcome, and an unfinished one has logged none.
C7_SingleAttempt ==
    \A i \in Procs :
        /\ attempts[i] <= 1
        /\ coPc[i] # "returned" => DbLines(i) = {}
        /\ coPc[i] = "returned" =>
              /\ Cardinality(DbLines(i)) = 1
              /\ InLog(i, "db_connected") <=> db[i] = "connected"
              /\ InLog(i, "db_problem") <=> db[i] = "failed"

C7_Witness ==
    /\ attempts["A"] = 1 /\ coPc["A"] = "returned" /\ db["A"] = "failed"
    /\ log["A"] = <<"server_running", "db_problem">>

\* C8 (as stated): no ordering between the connection outcome and the
\* listener: while the attempt is in flight and the listener is not yet
\* bound the outcome may arrive, and while the attempt is in flight a
\* listening process may serve a request.
C8_Original ==
    \A i \in Procs :
        (Alive(i) /\ db[i] = "pending") =>
            /\ listener[i] = "NotStarted" => ENABLED MongooseSettle(i)
            /\ (listener[i] = "Listening" /\ tick[i] = "none")
                  => ENABLED HandleRequest(i, PlainGet)

\* C8 (amended): a request may be served while the attempt is in flight,
\* but the outcome is never known before app.listen has run: the
\* continuation of ConnectDB runs after the module body.
C8_Amended ==
    \A i \in Procs :
        /\ db[i] \in {"connected", "failed"} => listener[i] # "NotStarted"
        /\ coPc[i] = "returned" => listener[i] # "NotStarted"
        /\ (Alive(i) /\ db[i] = "pending" /\ listener[i] = "Listening" /\ tick[i] = "none")
              => ENABLED HandleRequest(i, PlainGet)

C8_Witness ==
    /\ Served("A") /\ db["A"] = "pending" /\ coPc["A"] = "await"
    /\ log["A"] = <<"server_running">>

\* C9 (as stated): the startup message is logged only after a successful
\* bind; a failed bind ends the process without the message; a listening
\* process stays listening.
C9_Original ==
    \A i \in Procs :
        /\ InLog(i, "server_running") => listener[i] = "Listening"
        /\ (listener[i] = "BindFailed" /\ tick[i] = "none") => ~Alive(i)

\* C10: the response to a request does not depend on the connection state
\* or on the configuration: under any other connection state and any other
\* configuration the request served would have got the same answer.
C10_NoLeak ==
    \A i \in Procs :
        Served(i) =>
            \A d \in DbStates : \A c \in Environments :
                Respond(stack[i], Req(i), d, c) = Resp(i)

C10_Witness ==
    /\ Served("A") /\ db["A"] = "connected" /\ coPc["A"] = "returned"
    /\ Req("A") = PlainGet /\ Resp("A") = Response(200, "Hi hi")

====
